---- MODULE Spec2Model ----
(***************************************************************************)
(* A model of the iMessage gateway: the HTTP bridge (imessage_bridge.py,   *)
(* alias mode: a contact directory alias -> handle) and the stdio guard    *)
(* (imsg_guard.py, single-contact mode: one allowed handle).               *)
(*                                                                         *)
(* Strings are TLA+ strings, taken apart with Len, SubSeq and \o.  A JSON  *)
(* value is a tagged record [k |-> kind, v |-> value]: a string keeps its  *)
(* text, a number its decimal text, a boolean "true"/"false", an object a  *)
(* function from its keys to JSON values.  A serialized line that parses   *)
(* is [json |-> value].                                                    *)
(***************************************************************************)
EXTENDS Integers, Sequences, FiniteSets, TLC

(* ---------------------------------------------------------------- text *)

UpperChars == "ABCDEFGHIJKLMNOPQRSTUVWXYZ"
LowerChars == "abcdefghijklmnopqrstuvwxyz"
Digits == {"0", "1", "2", "3", "4", "5", "6", "7", "8", "9"}
Whitespace == {" ", "\t", "\n", "\r"}

RestOf(s) == SubSeq(s, 2, Len(s))

\* str.lower() of one character.
LowerChar(c) ==
    IF \E i \in 1..Len(UpperChars) : SubSeq(UpperChars, i, i) = c
    THEN LET i == CHOOSE j \in 1..Len(UpperChars) : SubSeq(UpperChars, j, j) = c
         IN  SubSeq(LowerChars, i, i)
    ELSE c

RECURSIVE lower(_)
lower(s) == IF s = "" THEN "" ELSE LowerChar(SubSeq(s, 1, 1)) \o lower(RestOf(s))

RECURSIVE lstrip(_)
lstrip(s) == IF s # "" /\ SubSeq(s, 1, 1) \in Whitespace THEN lstrip(RestOf(s)) ELSE s

RECURSIVE rstrip(_)
rstrip(s) ==
    IF s # "" /\ SubSeq(s, Len(s), Len(s)) \in Whitespace
    THEN rstrip(SubSeq(s, 1, Len(s) - 1))
    ELSE s

strip(s) == rstrip(lstrip(s))

startswith(s, p) == Len(s) >= Len(p) /\ SubSeq(s, 1, Len(p)) = p

\* "".join(c for c in h if c.isdigit())
RECURSIVE digits_of(_)
digits_of(s) ==
    IF s = "" THEN ""
    ELSE (IF SubSeq(s, 1, 1) \in Digits THEN SubSeq(s, 1, 1) ELSE "") \o digits_of(RestOf(s))

ServicePrefixes == <<"imessage:", "sms:", "tel:">>

\* The loop over the prefixes, in their order: each is tried once.
RECURSIVE strip_prefixes(_, _)
strip_prefixes(h, i) ==
    IF i > Len(ServicePrefixes) THEN h
    ELSE LET p == ServicePrefixes[i]
         IN  strip_prefixes(IF startswith(h, p) THEN SubSeq(h, Len(p) + 1, Len(h)) ELSE h, i + 1)

USPhoneDigits == 10

\* A faulty variant of normalize_handle: a 10-digit number gets no country code.
normalize_handle_NoCountryCode(handle) ==
    LET h == strip(strip_prefixes(lower(strip(handle)), 1))
    IN  IF startswith(h, "+") \/ (h # "" /\ SubSeq(h, 1, 1) \in Digits) \/ startswith(h, "(")
        THEN IF digits_of(h) # "" THEN "+" \o digits_of(h) ELSE h
        ELSE h

normalize_handle(handle) ==
    LET h == strip(strip_prefixes(lower(strip(handle)), 1))
    IN  IF startswith(h, "+") \/ (h # "" /\ SubSeq(h, 1, 1) \in Digits) \/ startswith(h, "(")
        THEN LET d0 == digits_of(h)
                 digits == IF Len(d0) = USPhoneDigits THEN "1" \o d0 ELSE d0
             IN  IF digits # "" THEN "+" \o digits ELSE h
        ELSE h

(* ---------------------------------------------------------------- JSON *)

JStr(s) == [k |-> "str", v |-> s]
JInt(text) == [k |-> "int", v |-> text]
JTrue == [k |-> "bool", v |-> "true"]
JFalse == [k |-> "bool", v |-> "false"]
JObj(f) == [k |-> "obj", v |-> f]
JNull == [k |-> "null", v |-> ""]
EmptyDict == [x \in {} |-> JNull]

IsStr(j) == j.k = "str"
IsDict(j) == j.k = "obj"

\* dict.get(key, default) on an object's function of keys.
Get(d, key, default) == IF key \in DOMAIN d THEN d[key] ELSE default

\* Python truth value of a JSON value.
Truthy(j) ==
    CASE j.k = "str" -> j.v # ""
      [] j.k = "int" -> j.v # "0"
      [] j.k = "bool" -> j.v = "true"
      [] j.k = "obj" -> DOMAIN j.v # {}
      [] OTHER -> FALSE

\* str(x) of a request id: a number's decimal text, a string's own text.
str(j) == IF j.k = "null" THEN "None" ELSE j.v

\* json.dumps(value): the serialized line.
json_dumps(j) == [json |-> j]

\* The fields of an envelope, as request.get(...) reads them.
IdOf(request) == Get(request, "id", JNull)
MethodOf(request) == Get(request, "method", JStr("")).v
ParamsOf(request) == Get(request, "params", JObj(EmptyDict)).v

(* ------------------------------------------------------------ optional *)

\* A Python value that may be None: <<>> is None, <<x>> is x.
None == <<>>
Some(x) == <<x>>
IsNone(o) == o = <<>>
Val(o) == o[1]

(* -------------------------------------------------------------- bounds *)

MaxCalls == 2
MaxLines == 2
MaxOps == 2
NOTIFICATION_BUFFER_MAX == 500

Callers == {"c1", "c2"}

(* -------------------------------------------------------------- inputs *)

Noah == "+15551234567"
Stranger == "+19995550000"

\* The contact sources a deployment is started with.
RawContacts ==
    { << <<" Noah ", " +1 (555) 123-4567">>, <<"alice", "Alice@iCloud.com">> >>,
      << <<"noah", "5551234567">> >> }
AllowedContacts == {"+1 (555) 123-4567", "alice@icloud.com"}

Text(t) == "text" :> JStr(t)

\* The params of the send requests clients issue.
SendParams ==
    { "to" :> JStr(" Noah ") @@ Text("hi"),
      "to" :> JStr("tel:+15551234567") @@ Text("hi"),
      "to" :> JStr(Stranger) @@ Text("hi"),
      "to" :> JStr("(555) 123-4567") @@ "chat_guid" :> JStr("iMessage;+;chat7"),
      "to" :> JStr("ALICE@icloud.com") @@ Text("hi"),
      Text("hi") }

Request(id, method, params) ==
    "id" :> id @@ "method" :> JStr(method) @@ "params" :> JObj(params)
Notification(method, params) == "method" :> JStr(method) @@ "params" :> JObj(params)

Requests ==
    { Request(JInt("1"), "send", p) : p \in SendParams }
    \cup { Notification("send", "to" :> JStr(Stranger) @@ Text("hi")) }
    \cup { Request(id, "watch.subscribe", "attachments" :> JFalse) : id \in {JStr("1"), JInt("2")} }

Unparseable == [text |-> "{not json"]

\* The payloads of the message events the subprocess emits.
EventParams ==
    { "message" :> JObj("sender" :> JStr("+1 (555) 123-4567") @@ Text("hi")),
      "sender" :> JStr("tel:+15551234567")
          @@ "message" :> JObj("handle" :> JStr("5551234567") @@ "address" :> JStr(Noah)),
      "message" :> JObj("sender" :> JStr(Stranger) @@ Text("spam")),
      "sender" :> JStr(Noah) @@ "message" :> JObj("sender" :> JStr(Stranger)),
      "message" :> JObj("sender" :> JStr(Noah) @@ "is_from_me" :> JTrue),
      "sender" :> JStr("alice@icloud.com") @@ "is_from_me" :> JInt("1") }

Response(id, result) == "id" :> id @@ "result" :> JObj(result)

\* The lines the subprocess writes to its output.
OutLines ==
    { json_dumps(JObj(Notification("message", p))) : p \in EventParams }
    \cup { json_dumps(JObj(Notification("typing", "sender" :> JStr(Noah)))),
           json_dumps(JObj(Response(JInt("1"), "ok" :> JTrue))),
           json_dumps(JObj(Response(JInt("2"), "handle" :> JStr(Noah)))),
           Unparseable }

\* Lines that parse and are no well-formed envelope: a JSON value that is no object,
\* and a message event whose params is no object.
MalformedLines ==
    { json_dumps(JInt("5")),
      json_dumps(JObj("method" :> JStr("message") @@ "params" :> JStr("oops"))) }

\* The lines a client writes to the guard.
ClientLines == { json_dumps(JObj(r)) : r \in Requests } \cup { Unparseable }

\* One US phone number as people and clients write it: a scheme prefix or none, in
\* either case, the 10-digit or the 11-digit form, punctuated or not, after a blank or not.
PhonePrefixes == {"", "tel:", "sms:", "imessage:", "TEL:", "iMessage: "}
PhoneBodies ==
    {"5551234567", "(555) 123-4567", "555-123-4567", "555.123.4567",
     "+15551234567", "15551234567", "+1 (555) 123-4567", "1-555-123-4567"}
PhoneSpellings == { w \o p \o b : w \in {"", " "}, p \in PhonePrefixes, b \in PhoneBodies }
EmailSpellings == {"alice@icloud.com", "Alice@iCloud.com", " ALICE@ICLOUD.COM"}
AliasSpellings == {"noah", " Noah ", "NOAH", "dad", "Dad ", "alice", " ALICE"}
\* Email addresses whose local part begins with a digit.
DigitEmails == {"5551234567@x.io", "1@a.io", " 1@B.io"}

\* The contact sources of the lookups: those above, one where two aliases have
\* handles with the same normalized form, one where two keys become the same alias,
\* and one per body of the phone number.
Directories ==
    RawContacts
    \cup { << <<"noah", "+15551234567">>, <<"dad", "(555) 123-4567">> >> }
    \cup { << <<"NOAH", "+15551234567">>, <<" Noah ", "alice@icloud.com">> >> }
    \cup { << <<"noah", b>> >> : b \in PhoneBodies }

\* The sends and the message events that carry one spelling each.
HandleRequests ==
    { Request(JInt("1"), "send", "to" :> JStr(x) @@ Text("hi")) :
        x \in PhoneSpellings \cup EmailSpellings \cup AliasSpellings \cup DigitEmails }
HandleLines ==
    { json_dumps(JObj(Notification("message", "message" :> JObj("sender" :> JStr(x) @@ Text("hi"))))) :
        x \in PhoneSpellings \cup EmailSpellings \cup DigitEmails }

\* json.loads(line): None stands for JSONDecodeError.
json_loads(line) == IF "json" \in DOMAIN line THEN Some(line.json) ELSE None

(* --------------------------------------------------------------- tables *)

StrValues(d) == { d[f].v : f \in { g \in DOMAIN d : IsStr(d[g]) } }
DictValues(d) == { d[f].v : f \in { g \in DOMAIN d : IsDict(d[g]) } }
\* The strings held by a dict, at its top level and one level down.
StringsOf(d) == StrValues(d) \cup UNION { StrValues(n) : n \in DictValues(d) }

\* Every string the inputs hold, raw and stripped.
RawStrings ==
    UNION { StringsOf(ParamsOf(r)) : r \in Requests }
    \cup UNION { StringsOf(p) : p \in EventParams }
    \cup UNION { { raw[i][1], raw[i][2] } : i \in 1..2, raw \in { r \in RawContacts : Len(r) = 2 } }
    \cup UNION { { raw[1][1], raw[1][2] } : raw \in RawContacts }
    \cup AllowedContacts \cup { "", Noah }
    \cup PhoneSpellings \cup EmailSpellings \cup AliasSpellings \cup DigitEmails
Strings == RawStrings \cup { strip(x) : x \in RawStrings }

\* The text functions tabulated over Strings; TLC evaluates each table once.
StripTable == [x \in Strings |-> strip(x)]
LowerTable == [x \in Strings |-> lower(x)]
NormalizeTable == [x \in Strings |-> normalize_handle(x)]

Strip(x) == IF x \in Strings THEN StripTable[x] ELSE strip(x)
Lower(x) == IF x \in Strings THEN LowerTable[x] ELSE lower(x)
Normalize(x) == IF x \in Strings THEN NormalizeTable[x] ELSE normalize_handle(x)

(* ------------------------------------------------- state of the program *)

VARIABLES
    mode,            \* "alias": the bridge runs; "single": the guard runs
    source,          \* bridge: the contacts source, the items of the JSON mapping
    CONTACTS,        \* bridge: alias -> real handle
    HANDLE_TO_ALIAS, \* bridge: normalized handle -> alias
    ALLOWED_CONTACT, \* guard: the one allowed handle
    proc,            \* bridge: self.proc: "none" (not started), "running", "exited" (set, the
                     \*   subprocess has ended), "stopped" (None again)
    stdin_lock,      \* bridge: the holder of self.stdin_lock, or "free"
    pending,         \* bridge: self.pending, key -> the caller whose entry it holds
    entry,           \* bridge: each caller's entry {"event", "result"}
    notifications,   \* bridge: self.notifications
    pc,              \* bridge: where each caller of send_request stands
    callno,          \* bridge: the number of each caller's current (or last) call
    arg,             \* bridge: the request each caller passed to send_request
    req,             \* bridge: each caller's local request (as rewritten by the filter)
    auth,            \* bridge: each caller's (allowed, modified_params), None if not run
    ret,             \* bridge: what each caller's last send_request returned
    ncalls,          \* number of client requests taken so far
    imsg_stdin,      \* the lines written to the subprocess input
    nlines,          \* number of subprocess output lines read so far
    reader_line,     \* reader: the line of the current iteration
    reader_msg,      \* reader: its parsed envelope, as the iteration leaves it
    rewritten,       \* reader: what the event filter returned, None if dropped
    client_out,      \* what went to the client: drained entries, guard stdout lines
    client_line,     \* guard: the client line of the current iteration
    reader_thread,   \* bridge: the reader thread, "alive" or "dead"
    http             \* bridge: the last HTTP exchange: the request and its status

vars == <<mode, source, CONTACTS, HANDLE_TO_ALIAS, ALLOWED_CONTACT, proc, stdin_lock, pending,
          entry, notifications, pc, callno, arg, req, auth, ret, ncalls, imsg_stdin, nlines,
          reader_line, reader_msg, rewritten, client_out, client_line, reader_thread, http>>

(* ------------------------------------------------------------ contacts *)

\* The loop of load_contacts over raw.items(), a sequence of <<alias, handle>>.
RECURSIVE load_contacts_from(_, _, _, _)
load_contacts_from(raw, i, contacts, reverse) ==
    IF i > Len(raw) THEN [CONTACTS |-> contacts, HANDLE_TO_ALIAS |-> reverse]
    ELSE LET alias == Lower(Strip(raw[i][1]))
             handle == Strip(raw[i][2])
         IN  IF alias = "" \/ handle = ""
             THEN load_contacts_from(raw, i + 1, contacts, reverse)
             ELSE load_contacts_from(raw, i + 1,
                     [a \in DOMAIN contacts \cup {alias} |->
                         IF a = alias THEN handle ELSE contacts[a]],
                     [n \in DOMAIN reverse \cup {Normalize(handle)} |->
                         IF n = Normalize(handle) THEN alias ELSE reverse[n]])

load_contacts(raw) == load_contacts_from(raw, 1, [a \in {} |-> ""], [n \in {} |-> ""])

resolve_alias(alias) ==
    IF Lower(Strip(alias)) \in DOMAIN CONTACTS THEN Some(CONTACTS[Lower(Strip(alias))]) ELSE None

resolve_handle(handle) ==
    IF Normalize(handle) \in DOMAIN HANDLE_TO_ALIAS
    THEN Some(HANDLE_TO_ALIAS[Normalize(handle)])
    ELSE None

\* A faulty variant of is_known_handle: the handle is looked up as given.
is_known_handle_Exact(handle) == handle \in DOMAIN HANDLE_TO_ALIAS

is_known_handle(handle) == Normalize(handle) \in DOMAIN HANDLE_TO_ALIAS

\* guard: is_allowed(handle), handle a Python string.
is_allowed(handle) ==
    IF handle = "" \/ ALLOWED_CONTACT = "" THEN FALSE
    ELSE Normalize(handle) = Normalize(ALLOWED_CONTACT)

(* -------------------------------------------------------- send filters *)

ChatFields == {"chat_id", "chat_guid", "chat_identifier"}

\* params.get("chat_id") or params.get("chat_guid") or params.get("chat_identifier")
IndirectTarget(params) == \E f \in ChatFields : Truthy(Get(params, f, JNull))

\* A faulty variant of filter_send_request: an alias is allowed but not resolved.
filter_send_request_NoSubstitution(params) ==
    LET to == Strip(Get(params, "to", JStr("")).v)
        real_handle == resolve_alias(to)
    IN  IF IndirectTarget(params) THEN [allowed |-> FALSE, params |-> params]
        ELSE IF to = "" THEN [allowed |-> FALSE, params |-> params]
        ELSE IF ~IsNone(real_handle) /\ Val(real_handle) # ""
             THEN [allowed |-> TRUE, params |-> params]
        ELSE IF is_known_handle(to) THEN [allowed |-> TRUE, params |-> params]
        ELSE [allowed |-> FALSE, params |-> params]

\* bridge: (allowed, modified_params)
filter_send_request(params) ==
    LET to == Strip(Get(params, "to", JStr("")).v)
        real_handle == resolve_alias(to)
    IN  IF IndirectTarget(params) THEN [allowed |-> FALSE, params |-> params]
        ELSE IF to = "" THEN [allowed |-> FALSE, params |-> params]
        ELSE IF ~IsNone(real_handle) /\ Val(real_handle) # ""
             THEN [allowed |-> TRUE,
                   params |-> [f \in DOMAIN params \cup {"to"} |->
                                  IF f = "to" THEN JStr(Val(real_handle)) ELSE params[f]]]
        ELSE IF is_known_handle(to) THEN [allowed |-> TRUE, params |-> params]
        ELSE [allowed |-> FALSE, params |-> params]

\* guard: is_allowed_send(params)
is_allowed_send(params) ==
    LET to == Get(params, "to", JStr("")).v
    IN  IF to # "" /\ is_allowed(to) THEN TRUE
        ELSE IF IndirectTarget(params) THEN FALSE
        ELSE FALSE

(* ------------------------------------------------------- event filters *)

SenderKeys == <<"sender", "handle", "from", "address">>

\* from_me is True or from_me == 1 or from_me == "true" or from_me == "1"
IsFromMe(obj) ==
    LET from_me == Get(obj, "is_from_me", JNull)
    IN  from_me \in {JTrue, JInt("1"), JStr("true"), JStr("1")}

\* The first key of SenderKeys, from the i-th on, whose value is a non-blank string.
RECURSIVE first_sender(_, _)
first_sender(obj, i) ==
    IF i > Len(SenderKeys) THEN ""
    ELSE LET val == Get(obj, SenderKeys[i], JStr(""))
         IN  IF IsStr(val) /\ Strip(val.v) # "" THEN Strip(val.v)
             ELSE first_sender(obj, i + 1)

\* guard: _extract_sender(obj)
extract_sender(obj) == first_sender(obj, 1)

\* A faulty variant of with_alias: only the key "sender" is set to the alias.
with_alias_SenderOnly(obj, alias) ==
    [f \in DOMAIN obj |-> IF f = "sender" THEN JStr(alias) ELSE obj[f]]

\* Each sender key present in obj set to the alias.
with_alias(obj, alias) ==
    [f \in DOMAIN obj |->
        IF \E i \in 1..Len(SenderKeys) : SenderKeys[i] = f THEN JStr(alias) ELSE obj[f]]

\* json.loads(json.dumps(params)) on a value that json.loads produced: an equal
\* value in a new object, so that what is written to the copy leaves params as it was.
deep_copy(params) == [f \in DOMAIN params |-> params[f]]

\* bridge: rewrite_notification(params).  result: None or the rewritten copy;
\* params: the caller's params object as the call leaves it.
rewrite_notification(params) ==
    LET m == Get(params, "message", JObj(EmptyDict))
        dropped == [result |-> None, params |-> params]
    IN  IF ~IsDict(m) THEN dropped
        ELSE IF IsFromMe(m.v) \/ IsFromMe(params) THEN dropped
        ELSE LET nested == first_sender(m.v, 1)
                 sender == IF nested # "" THEN nested ELSE first_sender(params, 1)
                 alias == resolve_handle(sender)
             IN  IF sender = "" THEN dropped
                 ELSE IF IsNone(alias) \/ Val(alias) = "" THEN dropped
                 ELSE LET copy == deep_copy(params)
                          rewritten_msg == Get(copy, "message", JObj(EmptyDict))
                          inner == IF "message" \in DOMAIN copy /\ IsDict(rewritten_msg)
                                   THEN [f \in DOMAIN copy |->
                                            IF f = "message"
                                            THEN JObj(with_alias(rewritten_msg.v, Val(alias)))
                                            ELSE copy[f]]
                                   ELSE copy
                      IN  [result |-> Some(with_alias(inner, Val(alias))), params |-> params]

\* guard: is_allowed_notification(params)
is_allowed_notification(params) ==
    LET top == extract_sender(params)
        m == Get(params, "message", JObj(EmptyDict))
    IN  IF top # "" /\ is_allowed(top) THEN TRUE
        ELSE IF IsDict(m) /\ extract_sender(m.v) # "" /\ is_allowed(extract_sender(m.v)) THEN TRUE
        ELSE FALSE

MessageMethods == {"message", "new_message", "message_received"}

(* ----------------------------------------------------------- responses *)

ErrorResponse(id, code, message) ==
    "jsonrpc" :> JStr("2.0") @@ "id" :> id
        @@ "error" :> JObj("code" :> JInt(code) @@ "message" :> JStr(message))

NotRunningError(id) == ErrorResponse(id, "-32000", "imsg rpc not running")
\* A faulty variant of the blocked-by-policy response: the id is not echoed.
BridgeBlockedError_NullId(id) ==
    ErrorResponse(JNull, "-32001", "Blocked by iMessage bridge: recipient not in contacts")
BridgeBlockedError(id) ==
    ErrorResponse(id, "-32001", "Blocked by iMessage bridge: recipient not in contacts")
TimeoutError(id) == ErrorResponse(id, "-32000", "Timeout (15s)")
\* guard: make_error_response(req_id, -32001, ...)
make_error_response(id) ==
    json_dumps(JObj(ErrorResponse(id, "-32001", "Blocked by imsg-guard: recipient not in allowlist")))

Raised(what) == [k |-> "exc", v |-> what]

(* ---------------------------------------------------------------- Init *)

NoEntry == [event |-> FALSE, result |-> None]

Init ==
    /\ mode \in {"alias", "single"}
    /\ source \in IF mode = "alias" THEN RawContacts ELSE {<<>>}
    /\ CONTACTS = load_contacts(source).CONTACTS
    /\ HANDLE_TO_ALIAS = load_contacts(source).HANDLE_TO_ALIAS
    /\ ALLOWED_CONTACT \in IF mode = "single" THEN AllowedContacts ELSE {""}
    /\ proc = "none"
    /\ stdin_lock = "free"
    /\ pending = [x \in {} |-> "c1"]
    /\ entry = [t \in Callers |-> NoEntry]
    /\ notifications = <<>>
    /\ pc = [t \in Callers |-> "idle"]
    /\ callno = [t \in Callers |-> 0]
    /\ arg = [t \in Callers |-> None]
    /\ req = [t \in Callers |-> None]
    /\ auth = [t \in Callers |-> None]
    /\ ret = [t \in Callers |-> None]
    /\ ncalls = 0
    /\ imsg_stdin = <<>>
    /\ nlines = 0
    /\ reader_line = None
    /\ reader_msg = None
    /\ rewritten = None
    /\ client_out = <<>>
    /\ client_line = None
    /\ reader_thread = "alive"
    /\ http = None

(* ------------------------------------------------- bridge: send_request *)

config == <<mode, source, CONTACTS, HANDLE_TO_ALIAS, ALLOWED_CONTACT>>
readerVars == <<nlines, reader_line, reader_msg, rewritten, reader_thread>>

Put(f, key, val) == [x \in DOMAIN f \cup {key} |-> IF x = key THEN val ELSE f[x]]
Pop(f, key) == [x \in DOMAIN f \ {key} |-> f[x]]

\* self.proc and self.proc.stdin: a Popen object is held, running or not.
HasProc == proc \in {"running", "exited"}

\* The call has returned to its caller.
Returned(t) == pc[t] = "idle" /\ ~IsNone(ret[t])

\* send_request, from its entry to its first return or to the registered Pending Call.
Call(t, request) ==
    /\ mode = "alias"
    /\ pc[t] = "idle"
    /\ ncalls < MaxCalls
    /\ ncalls' = ncalls + 1
    /\ callno' = [callno EXCEPT ![t] = ncalls + 1]
    /\ arg' = [arg EXCEPT ![t] = Some(request)]
    /\ LET req_id == IdOf(request)
           f == filter_send_request(ParamsOf(request))
       IN  \/ /\ ~HasProc
              /\ ret' = [ret EXCEPT ![t] = Some(NotRunningError(req_id))]
              /\ req' = [req EXCEPT ![t] = Some(request)]
              /\ auth' = [auth EXCEPT ![t] = None]
              /\ UNCHANGED <<pc, pending, entry>>
           \/ /\ HasProc
              /\ req_id = JNull
              /\ pc' = [pc EXCEPT ![t] = "noid"]
              /\ req' = [req EXCEPT ![t] = Some(request)]
              /\ ret' = [ret EXCEPT ![t] = None]
              /\ auth' = [auth EXCEPT ![t] = None]
              /\ UNCHANGED <<pending, entry>>
           \/ /\ HasProc
              /\ req_id # JNull
              /\ MethodOf(request) = "send"
              /\ ~f.allowed
              /\ ret' = [ret EXCEPT ![t] = Some(BridgeBlockedError(req_id))]
              /\ req' = [req EXCEPT ![t] = Some(request)]
              /\ auth' = [auth EXCEPT ![t] = Some(f)]
              /\ UNCHANGED <<pc, pending, entry>>
           \/ /\ HasProc
              /\ req_id # JNull
              /\ MethodOf(request) = "send" => f.allowed
              /\ req' = [req EXCEPT ![t] =
                            Some(IF MethodOf(request) = "send"
                                 THEN Put(request, "params", JObj(f.params))
                                 ELSE request)]
              /\ auth' = [auth EXCEPT ![t] = IF MethodOf(request) = "send" THEN Some(f) ELSE None]
              /\ pending' = Put(pending, str(req_id), t)
              /\ entry' = [entry EXCEPT ![t] = NoEntry]
              /\ ret' = [ret EXCEPT ![t] = None]
              /\ pc' = [pc EXCEPT ![t] = "registered"]
    /\ UNCHANGED <<config, proc, stdin_lock, notifications, imsg_stdin, readerVars,
                   client_out, client_line>>

\* A faulty variant of the entry to the write: the lock is taken without waiting for it.
AcquireStdin_NoWait(t) ==
    /\ pc[t] \in {"noid", "registered"}
    /\ stdin_lock' = t
    /\ pc' = [pc EXCEPT ![t] = IF pc[t] = "noid" THEN "noid_locked" ELSE "locked"]
    /\ UNCHANGED <<config, http, proc, pending, entry, notifications, callno, arg, req, auth, ret,
                   ncalls, imsg_stdin, readerVars, client_out, client_line>>

\* with self.stdin_lock: the lock is taken.
AcquireStdin(t) ==
    /\ pc[t] \in {"noid", "registered"}
    /\ stdin_lock = "free"
    /\ stdin_lock' = t
    /\ pc' = [pc EXCEPT ![t] = IF pc[t] = "noid" THEN "noid_locked" ELSE "locked"]
    /\ UNCHANGED <<config, http, proc, pending, entry, notifications, callno, arg, req, auth, ret,
                   ncalls, imsg_stdin, readerVars, client_out, client_line>>

\* A faulty variant of the write: the call without an id waits for a reply as well.
Write_AlwaysWaits(t) ==
    /\ pc[t] \in {"noid_locked", "locked"}
    /\ stdin_lock' = "free"
    /\ \/ /\ proc = "running"
          /\ imsg_stdin' = Append(imsg_stdin, json_dumps(JObj(Val(req[t]))))
          /\ ret' = ret
          /\ pc' = [pc EXCEPT ![t] = "waiting"]
       \/ /\ proc # "running"
          /\ imsg_stdin' = imsg_stdin
          /\ ret' = [ret EXCEPT ![t] = Some(Raised(IF proc = "exited" THEN "BrokenPipeError"
                                                    ELSE "AttributeError"))]
          /\ pc' = [pc EXCEPT ![t] = IF pc[t] = "noid_locked" THEN "idle" ELSE "finally"]
    /\ UNCHANGED <<config, http, proc, pending, entry, notifications, callno, arg, req, auth, ncalls,
                   readerVars, client_out, client_line>>

\* self.proc.stdin.write(json.dumps(request) + "\n"); flush; the lock is released.
\* With self.proc None the attribute access raises; with the subprocess ended the
\* pipe has no reader and the write raises.
Write(t) ==
    /\ pc[t] \in {"noid_locked", "locked"}
    /\ stdin_lock' = "free"
    /\ \/ /\ proc = "running"
          /\ imsg_stdin' = Append(imsg_stdin, json_dumps(JObj(Val(req[t]))))
          /\ IF pc[t] = "noid_locked"
             THEN /\ ret' = [ret EXCEPT ![t] = Some(EmptyDict)]
                  /\ pc' = [pc EXCEPT ![t] = "idle"]
             ELSE /\ ret' = ret
                  /\ pc' = [pc EXCEPT ![t] = "waiting"]
       \/ /\ proc # "running"
          /\ imsg_stdin' = imsg_stdin
          /\ ret' = [ret EXCEPT ![t] = Some(Raised(IF proc = "exited" THEN "BrokenPipeError"
                                                    ELSE "AttributeError"))]
          /\ pc' = [pc EXCEPT ![t] = IF pc[t] = "noid_locked" THEN "idle" ELSE "finally"]
    /\ UNCHANGED <<config, http, proc, pending, entry, notifications, callno, arg, req, auth, ncalls,
                   readerVars, client_out, client_line>>

\* event.wait(timeout) returns True: return entry["result"].
WaitDone(t) ==
    /\ pc[t] = "waiting"
    /\ entry[t].event
    /\ ret' = [ret EXCEPT ![t] = entry[t].result]
    /\ pc' = [pc EXCEPT ![t] = "finally"]
    /\ UNCHANGED <<config, http, proc, stdin_lock, pending, entry, notifications, callno, arg, req,
                   auth, ncalls, imsg_stdin, readerVars, client_out, client_line>>

\* event.wait(timeout) returns False: the timeout error.
Timeout(t) ==
    /\ pc[t] = "waiting"
    /\ ~entry[t].event
    /\ ret' = [ret EXCEPT ![t] = Some(TimeoutError(IdOf(Val(req[t]))))]
    /\ pc' = [pc EXCEPT ![t] = "finally"]
    /\ UNCHANGED <<config, http, proc, stdin_lock, pending, entry, notifications, callno, arg, req,
                   auth, ncalls, imsg_stdin, readerVars, client_out, client_line>>

\* finally: self.pending.pop(key, None), and the call returns.
Finally(t) ==
    /\ pc[t] = "finally"
    /\ pending' = Pop(pending, str(IdOf(Val(req[t]))))
    /\ pc' = [pc EXCEPT ![t] = "idle"]
    /\ UNCHANGED <<config, http, proc, stdin_lock, entry, notifications, callno, arg, req, auth, ret,
                   ncalls, imsg_stdin, readerVars, client_out, client_line>>

(* ----------------------------------------------------- bridge: the rest *)

\* A faulty variant of push: on overflow the oldest entries are the ones kept.
push_KeepOldest(buffer, e) ==
    LET b == Append(buffer, e)
    IN  IF Len(b) > NOTIFICATION_BUFFER_MAX THEN SubSeq(b, 1, NOTIFICATION_BUFFER_MAX) ELSE b

\* notifications.append(entry), then the cut to the last NOTIFICATION_BUFFER_MAX.
push(buffer, e) ==
    LET b == Append(buffer, e)
    IN  IF Len(b) > NOTIFICATION_BUFFER_MAX
        THEN SubSeq(b, Len(b) - NOTIFICATION_BUFFER_MAX + 1, Len(b))
        ELSE b

\* A faulty variant of the lookup: the entry of the first caller, whatever the key.
PendingEntry_First(key) == "c1"

\* entry = self.pending[key]: the caller whose entry the key holds.
PendingEntry(key) == pending[key]

\* One iteration of the loop of _read_stdout, on one line of the subprocess output.
ReadLine(line) ==
    /\ mode = "alias"
    /\ proc = "running"
    /\ reader_thread = "alive"
    /\ nlines < MaxLines
    /\ nlines' = nlines + 1
    /\ reader_line' = Some(line)
    /\ LET parsed == json_loads(line)
           msg == Val(parsed).v
           msg_id == IdOf(msg)
           method == MethodOf(msg)
           params == Get(msg, "params", JObj(EmptyDict))
           rw == rewrite_notification(params.v)
           unmatched == msg_id # JNull => str(msg_id) \notin DOMAIN pending
       IN  \/ /\ IsNone(parsed)
              /\ reader_msg' = None
              /\ rewritten' = None
              /\ UNCHANGED <<entry, notifications, reader_thread>>
           \/ \* msg.get on a value that is no dict raises; the except clause that
              \* catches it is outside the loop, and the reader ends.
              /\ ~IsNone(parsed) /\ ~IsDict(Val(parsed))
              /\ reader_thread' = "dead"
              /\ reader_msg' = None
              /\ rewritten' = None
              /\ UNCHANGED <<entry, notifications>>
           \/ /\ ~IsNone(parsed) /\ IsDict(Val(parsed))
              /\ msg_id # JNull
              /\ str(msg_id) \in DOMAIN pending
              /\ entry' = [entry EXCEPT ![PendingEntry(str(msg_id))] =
                              [event |-> TRUE, result |-> Some(msg)]]
              /\ reader_msg' = Some(msg)
              /\ rewritten' = None
              /\ UNCHANGED <<notifications, reader_thread>>
           \/ /\ ~IsNone(parsed) /\ IsDict(Val(parsed))
              /\ unmatched
              /\ method \in MessageMethods
              /\ IsDict(params)
              /\ reader_msg' = Some(IF "params" \in DOMAIN msg
                                    THEN Put(msg, "params", JObj(rw.params)) ELSE msg)
              /\ rewritten' = rw.result
              /\ notifications' =
                    IF IsNone(rw.result) THEN notifications
                    ELSE push(notifications,
                              json_dumps(JObj(Put(msg, "params", JObj(Val(rw.result))))))
              /\ UNCHANGED <<entry, reader_thread>>
           \/ \* params.get in rewrite_notification raises, and the reader ends.
              /\ ~IsNone(parsed) /\ IsDict(Val(parsed))
              /\ unmatched
              /\ method \in MessageMethods
              /\ ~IsDict(params)
              /\ reader_thread' = "dead"
              /\ reader_msg' = Some(msg)
              /\ rewritten' = None
              /\ UNCHANGED <<entry, notifications>>
           \/ /\ ~IsNone(parsed) /\ IsDict(Val(parsed))
              /\ unmatched
              /\ method \notin MessageMethods
              /\ reader_msg' = Some(msg)
              /\ rewritten' = None
              /\ notifications' = push(notifications, json_dumps(JObj(msg)))
              /\ UNCHANGED <<entry, reader_thread>>
    /\ UNCHANGED <<config, http, proc, stdin_lock, pending, pc, callno, arg, req, auth, ret, ncalls,
                   imsg_stdin, client_out, client_line>>

\* A faulty variant of drain_notifications: the buffer is returned and not cleared.
Drain_NoClear ==
    /\ mode = "alias"
    /\ notifications # <<>>
    /\ client_out' = client_out \o notifications
    /\ UNCHANGED <<config, proc, stdin_lock, pending, entry, notifications, pc, callno, arg, req,
                   auth, ret, ncalls, imsg_stdin, readerVars, client_line>>

\* drain_notifications: the buffer is returned and cleared.
Drain ==
    /\ mode = "alias"
    /\ notifications # <<>>
    /\ client_out' = client_out \o notifications
    /\ notifications' = <<>>
    /\ UNCHANGED <<config, proc, stdin_lock, pending, entry, pc, callno, arg, req, auth, ret,
                   ncalls, imsg_stdin, readerVars, client_line>>

\* The request _auto_subscribe sends.
AutoSubscribe ==
    "jsonrpc" :> JStr("2.0") @@ Request(JInt("-1"), "watch.subscribe", "attachments" :> JFalse)

\* start(): the subprocess is spawned, the reader started and, by _auto_subscribe,
\* the watch subscription written; its Pending Call is gone when start() returns.
Start ==
    /\ mode = "alias"
    /\ proc = "none"
    /\ proc' = "running"
    /\ imsg_stdin' = Append(imsg_stdin, json_dumps(JObj(AutoSubscribe)))
    /\ UNCHANGED <<config, http, stdin_lock, pending, entry, notifications, pc, callno, arg, req,
                   auth, ret, ncalls, readerVars, client_out, client_line>>

\* stop(): the subprocess is terminated and self.proc set to None.
Stop ==
    /\ mode = "alias"
    /\ HasProc
    /\ proc' = "stopped"
    /\ UNCHANGED <<config, http, stdin_lock, pending, entry, notifications, pc, callno, arg, req,
                   auth, ret, ncalls, imsg_stdin, readerVars, client_out, client_line>>

\* The subprocess ends by itself; self.proc keeps the Popen object.
Exit ==
    /\ mode = "alias"
    /\ proc = "running"
    /\ proc' = "exited"
    /\ UNCHANGED <<config, http, stdin_lock, pending, entry, notifications, pc, callno, arg, req,
                   auth, ret, ncalls, imsg_stdin, readerVars, client_out, client_line>>

(* ------------------------------------------------- bridge: HTTP handlers *)

\* IMSG_BRIDGE_TOKEN: the configured secret; the bridge does not start without one.
BRIDGE_TOKEN == "secret"

\* A faulty variant of _check_auth: any header of the Bearer scheme passes.
check_auth_AnyBearer(authorization) == startswith(authorization, "Bearer ")

\* _check_auth, on the value of the Authorization header ("" when absent).
check_auth(authorization) ==
    /\ startswith(authorization, "Bearer ")
    /\ strip(SubSeq(authorization, 8, Len(authorization))) = BRIDGE_TOKEN

\* urlparse(self.path).path: the request target up to its query or fragment.
RECURSIVE urlparse_path(_)
urlparse_path(target) ==
    IF target = "" \/ SubSeq(target, 1, 1) \in {"?", "#"} THEN ""
    ELSE SubSeq(target, 1, 1) \o urlparse_path(RestOf(target))

\* path.rstrip("/")
RECURSIVE rstrip_slash(_)
rstrip_slash(path) ==
    IF path # "" /\ SubSeq(path, Len(path), Len(path)) = "/"
    THEN rstrip_slash(SubSeq(path, 1, Len(path) - 1))
    ELSE path

\* The requests clients make of the HTTP server: requests to every endpoint and to none, with the
\* Authorization header absent, right, right but padded, wrong, and of another scheme.
AuthorizedHeaders == {"Bearer secret", "Bearer  secret "}
UnauthorizedHeaders == {"", "Bearer secretx", "Bearer ", "Basic secret"}
HealthTargets == {"/health", "/health/"}
SendBody == json_dumps(JObj(Request(JInt("1"), "send", "to" :> JStr(" Noah ") @@ Text("hi"))))
HttpGet(target, authorization) == [target |-> target, authorization |-> authorization]
HttpPost(target, authorization, body) ==
    [target |-> target, authorization |-> authorization, body |-> body]
GetRequests ==
    { HttpGet("/health", ""), HttpGet("/health/", "Bearer secretx"),
      HttpGet("/notifications", "Bearer secret"),
      HttpGet("/notifications/?since=1", "Bearer  secret "),
      HttpGet("/notifications", ""), HttpGet("/notifications/?since=1", "Bearer secretx"),
      HttpGet("/contacts", "Basic secret"), HttpGet("/contacts", "Bearer secret"),
      HttpGet("/nope", "Bearer "), HttpGet("/nope", "Bearer secret") }
PostRequests ==
    { HttpPost("/rpc", "Bearer secret", SendBody), HttpPost("/rpc/", "Bearer  secret ", Unparseable),
      HttpPost("/rpc", "", SendBody), HttpPost("/rpc", "Bearer secretx", SendBody),
      HttpPost("/rpc", "Basic secret", SendBody), HttpPost("/health", "", SendBody),
      HttpPost("/nope", "Bearer secret", SendBody) }
HttpLines == { json_dumps(JObj(Notification("typing", "sender" :> JStr(Noah)))) }

\* _check_auth and the path of the request target, tabulated over the requests.
AuthTable == [h \in AuthorizedHeaders \cup UnauthorizedHeaders |-> check_auth(h)]
PathTable ==
    [x \in { r.target : r \in GetRequests \cup PostRequests } |-> rstrip_slash(urlparse_path(x))]
CheckAuth(h) == IF h \in DOMAIN AuthTable THEN AuthTable[h] ELSE check_auth(h)
PathOf(x) == IF x \in DOMAIN PathTable THEN PathTable[x] ELSE rstrip_slash(urlparse_path(x))

\* Everything but the record of the last HTTP exchange.
bridgeVars == <<config, proc, stdin_lock, pending, entry, notifications, pc, callno, arg, req,
                auth, ret, ncalls, imsg_stdin, readerVars, client_out, client_line>>

Exchange(verb, target, authorization, status) ==
    Some([verb |-> verb, target |-> target, authorization |-> authorization, status |-> status])

\* do_GET; the server is created once start() has returned.
do_GET(target, authorization) ==
    /\ mode = "alias"
    /\ proc # "none"
    /\ LET path == PathOf(target)
       IN  \/ /\ path = "/health"
              /\ http' = Exchange("GET", target, authorization, 200)
              /\ UNCHANGED bridgeVars
           \/ /\ path # "/health"
              /\ ~CheckAuth(authorization)
              /\ http' = Exchange("GET", target, authorization, 401)
              /\ UNCHANGED bridgeVars
           \/ /\ path = "/notifications"
              /\ CheckAuth(authorization)
              /\ http' = Exchange("GET", target, authorization, 200)
              /\ IF notifications = <<>> THEN UNCHANGED bridgeVars ELSE Drain
           \/ /\ path = "/contacts"
              /\ CheckAuth(authorization)
              /\ http' = Exchange("GET", target, authorization, 200)
              /\ UNCHANGED bridgeVars
           \/ /\ path \notin {"/health", "/notifications", "/contacts"}
              /\ CheckAuth(authorization)
              /\ http' = Exchange("GET", target, authorization, 404)
              /\ UNCHANGED bridgeVars

\* do_POST, up to its response or, for /rpc, to the point where send_request has
\* registered the call; 200 is the status sent with what send_request returns.
do_POST(t, target, authorization, body) ==
    /\ mode = "alias"
    /\ proc # "none"
    /\ LET path == PathOf(target)
           parsed == json_loads(body)
       IN  \/ /\ ~CheckAuth(authorization)
              /\ http' = Exchange("POST", target, authorization, 401)
              /\ UNCHANGED bridgeVars
           \/ /\ CheckAuth(authorization)
              /\ IsNone(parsed)
              /\ http' = Exchange("POST", target, authorization, 400)
              /\ UNCHANGED bridgeVars
           \/ /\ CheckAuth(authorization)
              /\ ~IsNone(parsed)
              /\ path = "/rpc"
              /\ proc # "running"
              /\ http' = Exchange("POST", target, authorization, 503)
              /\ UNCHANGED bridgeVars
           \/ /\ CheckAuth(authorization)
              /\ ~IsNone(parsed)
              /\ path = "/rpc"
              /\ proc = "running"
              /\ http' = Exchange("POST", target, authorization, 200)
              /\ Call(t, Val(parsed).v)
           \/ /\ CheckAuth(authorization)
              /\ ~IsNone(parsed)
              /\ path # "/rpc"
              /\ http' = Exchange("POST", target, authorization, 404)
              /\ UNCHANGED bridgeVars

(* ---------------------------------------------------------------- guard *)

\* One iteration of the loop of proxy_stdin_to_imsg, on one client line.
GuardClientLine(line) ==
    /\ mode = "single"
    /\ ncalls < MaxCalls
    /\ ncalls' = ncalls + 1
    /\ client_line' = Some(line)
    /\ LET parsed == json_loads(line)
           msg == Val(parsed).v
       IN  \/ /\ IsNone(parsed)
              /\ imsg_stdin' = Append(imsg_stdin, line)
              /\ UNCHANGED client_out
           \/ /\ ~IsNone(parsed)
              /\ MethodOf(msg) = "send"
              /\ ~is_allowed_send(ParamsOf(msg))
              /\ client_out' = IF IdOf(msg) # JNull
                               THEN Append(client_out, make_error_response(IdOf(msg)))
                               ELSE client_out
              /\ UNCHANGED imsg_stdin
           \/ /\ ~IsNone(parsed)
              /\ MethodOf(msg) = "send" => is_allowed_send(ParamsOf(msg))
              /\ imsg_stdin' = Append(imsg_stdin, line)
              /\ UNCHANGED client_out
    /\ UNCHANGED <<config, http, proc, stdin_lock, pending, entry, notifications, pc, callno, arg,
                   req, auth, ret, readerVars>>

\* One iteration of the loop of proxy_imsg_to_stdout, on one subprocess line.
GuardImsgLine(line) ==
    /\ mode = "single"
    /\ nlines < MaxLines
    /\ nlines' = nlines + 1
    /\ reader_line' = Some(line)
    /\ LET parsed == json_loads(line)
           msg == Val(parsed).v
       IN  \/ /\ IsNone(parsed)
              /\ client_out' = Append(client_out, line)
           \/ /\ ~IsNone(parsed)
              /\ IdOf(msg) # JNull
              /\ client_out' = Append(client_out, line)
           \/ /\ ~IsNone(parsed)
              /\ IdOf(msg) = JNull
              /\ MethodOf(msg) \in MessageMethods
              /\ ~is_allowed_notification(ParamsOf(msg))
              /\ client_out' = client_out
           \/ /\ ~IsNone(parsed)
              /\ IdOf(msg) = JNull
              /\ MethodOf(msg) \in MessageMethods => is_allowed_notification(ParamsOf(msg))
              /\ client_out' = Append(client_out, line)
    /\ UNCHANGED <<config, http, proc, stdin_lock, pending, entry, notifications, pc, callno, arg,
                   req, auth, ret, ncalls, imsg_stdin, reader_msg, rewritten, reader_thread,
                   client_line>>

(* ---------------------------------------------------------------- specs *)

\* The whole gateway, every input, within MaxOps requests and output lines in all.
Budget == ncalls + nlines < MaxOps

Next ==
    \/ \E t \in Callers, request \in Requests : Budget /\ Call(t, request) /\ UNCHANGED http
    \/ \E t \in Callers : AcquireStdin(t)
    \/ \E t \in Callers : Write(t)
    \/ \E t \in Callers : WaitDone(t)
    \/ \E t \in Callers : Timeout(t)
    \/ \E t \in Callers : Finally(t)
    \/ \E line \in OutLines : Budget /\ ReadLine(line)
    \/ Drain /\ UNCHANGED http
    \/ Start
    \/ Stop
    \/ \E line \in ClientLines : Budget /\ GuardClientLine(line)
    \/ \E line \in OutLines : Budget /\ GuardImsgLine(line)

Spec == Init /\ [][Next]_vars

\* The bridge with a subprocess that fails: it exits by itself, is stopped, or writes
\* lines that are no well-formed envelopes among those that are.
FaultRequests ==
    { Request(JInt("1"), "watch.subscribe", "attachments" :> JFalse),
      Notification("send", "to" :> JStr(Stranger) @@ Text("hi")) }
FaultLines ==
    MalformedLines
    \cup { Unparseable,
           json_dumps(JObj(Notification("typing", "sender" :> JStr(Noah)))),
           json_dumps(JObj(Response(JInt("1"), "ok" :> JTrue))) }

InitFaults == Init /\ mode = "alias" /\ source = << <<"noah", "5551234567">> >>

NextFaults ==
    \/ \E t \in Callers, request \in FaultRequests : Budget /\ Call(t, request) /\ UNCHANGED http
    \/ \E t \in Callers : AcquireStdin(t)
    \/ \E t \in Callers : Write(t)
    \/ \E t \in Callers : WaitDone(t)
    \/ \E t \in Callers : Timeout(t)
    \/ \E t \in Callers : Finally(t)
    \/ \E line \in FaultLines : Budget /\ ReadLine(line)
    \/ Start
    \/ Stop
    \/ Exit

SpecFaults == InitFaults /\ [][NextFaults]_vars

\* The bridge while it runs, on the requests and responses that exercise the
\* correlation of calls and replies: MaxCalls calls and MaxLines lines.
CorrelationRequests ==
    { Request(JInt("1"), "send", "to" :> JStr(" Noah ") @@ Text("hi")),
      Request(JStr("1"), "watch.subscribe", "attachments" :> JFalse),
      Request(JInt("2"), "watch.subscribe", "attachments" :> JFalse) }
ResponseLines ==
    { json_dumps(JObj(Response(JInt("1"), "ok" :> JTrue))),
      json_dumps(JObj(Response(JInt("2"), "handle" :> JStr(Noah)))) }

InitCorrelation == Init /\ mode = "alias"

NextCorrelation ==
    \/ \E t \in Callers, request \in CorrelationRequests : Call(t, request) /\ UNCHANGED http
    \/ \E t \in Callers : AcquireStdin(t)
    \/ \E t \in Callers : Write(t)
    \/ \E t \in Callers : WaitDone(t)
    \/ \E t \in Callers : Timeout(t)
    \/ \E t \in Callers : Finally(t)
    \/ \E line \in ResponseLines : ReadLine(line)
    \/ Start

SpecCorrelation == InitCorrelation /\ [][NextCorrelation]_vars

\* The bridge behind its HTTP server, started, on the requests above.
InitHttp == Init /\ mode = "alias" /\ source = << <<"noah", "5551234567">> >>

NextHttp ==
    \/ \E r \in GetRequests : do_GET(r.target, r.authorization)
    \/ \E t \in Callers, r \in PostRequests : do_POST(t, r.target, r.authorization, r.body)
    \/ \E t \in Callers : AcquireStdin(t)
    \/ \E t \in Callers : Write(t)
    \/ \E t \in Callers : Timeout(t)
    \/ \E t \in Callers : Finally(t)
    \/ \E line \in HttpLines : ReadLine(line)
    \/ Start

SpecHttp == InitHttp /\ [][NextHttp]_vars

\* The same bridge with callers whose ids differ and with its threads scheduled: a
\* caller that can take the lock, write, wake up (event set or timeout elapsed) or
\* clean up eventually does; the subprocess is free to reply or not.
ProgressRequests(t) ==
    IF t = "c1"
    THEN { Request(JInt("1"), "send", "to" :> JStr(" Noah ") @@ Text("hi")) }
    ELSE { Request(JInt("2"), "watch.subscribe", "attachments" :> JFalse) }

NextProgress ==
    \/ \E t \in Callers : \E request \in ProgressRequests(t) : Call(t, request) /\ UNCHANGED http
    \/ \E t \in Callers : AcquireStdin(t)
    \/ \E t \in Callers : Write(t)
    \/ \E t \in Callers : WaitDone(t)
    \/ \E t \in Callers : Timeout(t)
    \/ \E t \in Callers : Finally(t)
    \/ \E line \in ResponseLines : ReadLine(line)
    \/ Start

Scheduling ==
    \A t \in Callers :
        /\ WF_vars(AcquireStdin(t))
        /\ WF_vars(Write(t))
        /\ WF_vars(WaitDone(t))
        /\ WF_vars(Timeout(t))
        /\ WF_vars(Finally(t))

SpecProgress == InitCorrelation /\ [][NextProgress]_vars /\ Scheduling

\* The bridge with its Notification Buffer nearly full or full of earlier typing
\* events, numbered in arrival order, while the reader reads on and clients drain.
Filler(i) == json_dumps(JObj(Notification("typing", "seq" :> JInt(ToString(i)))))
Fill(n) == [i \in 1..n |-> Filler(i)]

InitBuffer ==
    /\ mode = "alias"
    /\ source \in RawContacts
    /\ CONTACTS = load_contacts(source).CONTACTS
    /\ HANDLE_TO_ALIAS = load_contacts(source).HANDLE_TO_ALIAS
    /\ ALLOWED_CONTACT = ""
    /\ proc = "running"
    /\ stdin_lock = "free"
    /\ pending = [x \in {} |-> "c1"]
    /\ entry = [t \in Callers |-> NoEntry]
    /\ notifications \in { Fill(NOTIFICATION_BUFFER_MAX - 1), Fill(NOTIFICATION_BUFFER_MAX) }
    /\ pc = [t \in Callers |-> "idle"]
    /\ callno = [t \in Callers |-> 0]
    /\ arg = [t \in Callers |-> None]
    /\ req = [t \in Callers |-> None]
    /\ auth = [t \in Callers |-> None]
    /\ ret = [t \in Callers |-> None]
    /\ ncalls = 0
    /\ imsg_stdin = <<json_dumps(JObj(AutoSubscribe))>>
    /\ nlines = 0
    /\ reader_line = None
    /\ reader_msg = None
    /\ rewritten = None
    /\ client_out = <<>>
    /\ client_line = None
    /\ reader_thread = "alive"
    /\ http = None

NextBuffer ==
    \/ \E line \in OutLines : ReadLine(line)
    \/ Drain /\ UNCHANGED http

SpecBuffer == InitBuffer /\ [][NextBuffer]_vars

\* The gateway on one request or one subprocess line that carries a spelling of a
\* handle or of an alias, for every contact source and allowed contact above.
InitHandles ==
    /\ mode \in {"alias", "single"}
    /\ source \in IF mode = "alias" THEN Directories ELSE {<<>>}
    /\ CONTACTS = load_contacts(source).CONTACTS
    /\ HANDLE_TO_ALIAS = load_contacts(source).HANDLE_TO_ALIAS
    /\ ALLOWED_CONTACT \in IF mode = "single" THEN PhoneBodies \cup AllowedContacts ELSE {""}
    /\ proc = "none"
    /\ stdin_lock = "free"
    /\ pending = [x \in {} |-> "c1"]
    /\ entry = [t \in Callers |-> NoEntry]
    /\ notifications = <<>>
    /\ pc = [t \in Callers |-> "idle"]
    /\ callno = [t \in Callers |-> 0]
    /\ arg = [t \in Callers |-> None]
    /\ req = [t \in Callers |-> None]
    /\ auth = [t \in Callers |-> None]
    /\ ret = [t \in Callers |-> None]
    /\ ncalls = 0
    /\ imsg_stdin = <<>>
    /\ nlines = 0
    /\ reader_line = None
    /\ reader_msg = None
    /\ rewritten = None
    /\ client_out = <<>>
    /\ client_line = None
    /\ reader_thread = "alive"
    /\ http = None

FirstOp == ncalls = 0 /\ nlines = 0

NextHandles ==
    \/ Start
    \/ \E t \in Callers, request \in HandleRequests :
          FirstOp /\ proc = "running" /\ Call(t, request) /\ UNCHANGED http
    \/ \E t \in Callers : AcquireStdin(t)
    \/ \E t \in Callers : Write(t)
    \/ \E t \in Callers : Timeout(t)
    \/ \E t \in Callers : Finally(t)
    \/ \E line \in HandleLines : FirstOp /\ ReadLine(line)
    \/ Drain /\ UNCHANGED http
    \/ \E request \in HandleRequests : FirstOp /\ GuardClientLine(json_dumps(JObj(request)))
    \/ \E line \in HandleLines : FirstOp /\ GuardImsgLine(line)

SpecHandles == InitHandles /\ [][NextHandles]_vars

(* ----------------------------------------------------------- properties *)

Range(seq) == { seq[i] : i \in 1..Len(seq) }

\* The entries of the contacts source that load_contacts keeps.
Configured == { i \in 1..Len(source) : Strip(source[i][1]) # "" /\ Strip(source[i][2]) # "" }
\* The real identifiers the deployment is configured with, and the aliases.
ConfiguredHandles ==
    IF mode = "alias" THEN { source[i][2] : i \in Configured } ELSE { ALLOWED_CONTACT }
ConfiguredAliases == { Lower(Strip(source[i][1])) : i \in Configured }

\* h equals a configured contact after normalization.
Approved(h) == \E c \in ConfiguredHandles : Normalize(h) = Normalize(c)

Parses(line) == ~IsNone(json_loads(line))
Envelope(line) == Val(json_loads(line)).v
IsEnvelope(line) == Parses(line) /\ IsDict(Val(json_loads(line)))
IsSend(line) == IsEnvelope(line) /\ MethodOf(Envelope(line)) = "send"
IsMessageEvent(line) ==
    /\ IsEnvelope(line)
    /\ MethodOf(Envelope(line)) \in MessageMethods
    /\ IsDict(Get(Envelope(line), "params", JObj(EmptyDict)))
Recipient(params) == Get(params, "to", JStr("")).v
HasChatField(params) == DOMAIN params \cap ChatFields # {}

\* The guard's verdict on the client line of its current iteration: a line is
\* forwarded on every iteration or on none, the allowed contact being fixed.
GuardSend == mode = "single" /\ ~IsNone(client_line) /\ IsSend(Val(client_line))
GuardForwarded == Val(client_line) \in Range(imsg_stdin)
GuardParams == ParamsOf(Envelope(Val(client_line)))

\* The bridge's verdict on the send of caller t's current call.
BridgeSend(t) == ~IsNone(auth[t])
BridgeParams(t) == ParamsOf(Val(arg[t]))

\* C1: every line written to the subprocess input whose method is "send" has a direct
\* recipient that equals a configured contact after normalization, in both modes and
\* for requests with or without an id.
C1_SendsReachOnlyApproved ==
    \A line \in Range(imsg_stdin) :
        IsSend(line) => Approved(Recipient(ParamsOf(Envelope(line))))

\* C2: a send request in which chat_id, chat_guid or chat_identifier is present is
\* denied whatever its direct recipient, by the bridge and by the guard.
C2_ChatTargetsAlwaysDenied ==
    /\ \A t \in Callers :
          (BridgeSend(t) /\ HasChatField(BridgeParams(t))) => ~Val(auth[t]).allowed
    /\ (GuardSend /\ HasChatField(GuardParams)) => ~GuardForwarded

\* C3, as stated: a send request with no chat field is allowed if and only if its
\* recipient equals a configured contact after normalization.
C3_AllowedIffApproved ==
    /\ \A t \in Callers :
          (BridgeSend(t) /\ ~HasChatField(BridgeParams(t)))
              => (Val(auth[t]).allowed <=> Approved(Recipient(BridgeParams(t))))
    /\ (GuardSend /\ ~HasChatField(GuardParams))
          => (GuardForwarded <=> Approved(Recipient(GuardParams)))

\* C3, amended: a send request with no chat field is allowed if and only if its
\* recipient equals a configured contact after normalization or, in alias mode, its
\* recipient trimmed and lowercased is a configured alias.
C3_AllowedIffApprovedOrAlias ==
    /\ \A t \in Callers :
          (BridgeSend(t) /\ ~HasChatField(BridgeParams(t)))
              => (Val(auth[t]).allowed <=>
                    \/ Approved(Recipient(BridgeParams(t)))
                    \/ Lower(Strip(Recipient(BridgeParams(t)))) \in ConfiguredAliases)
    /\ (GuardSend /\ ~HasChatField(GuardParams))
          => (GuardForwarded <=> Approved(Recipient(GuardParams)))

\* The bridge has allowed a send to an alias and denied a send to a stranger.
C3_Witness ==
    \E t, u \in Callers :
        /\ BridgeSend(t) /\ Val(auth[t]).allowed
        /\ Lower(Strip(Recipient(BridgeParams(t)))) \in ConfiguredAliases
        /\ ~Approved(Recipient(BridgeParams(t)))
        /\ BridgeSend(u) /\ ~Val(auth[u]).allowed
        /\ ~HasChatField(BridgeParams(u)) /\ Recipient(BridgeParams(u)) = Stranger

\* The error object of a response envelope.
ErrorCode(response) == Get(Get(response, "error", JObj(EmptyDict)).v, "code", JNull)

\* C4: a step in which a send with a non-null id is denied by policy returns (bridge)
\* or writes to the client (guard) an error response with the id of the request and
\* the code -32001, writes nothing to the subprocess input and leaves the table of
\* Pending Calls as it was.
C4_DeniedSendAnsweredLocally ==
    [][ /\ \A t \in Callers :
              (callno'[t] # callno[t] /\ BridgeSend(t)' /\ ~Val(auth'[t]).allowed)
                  => /\ Returned(t)'
                     /\ IdOf(Val(ret'[t])) = IdOf(Val(arg'[t]))
                     /\ IdOf(Val(arg'[t])) # JNull
                     /\ ErrorCode(Val(ret'[t])) = JInt("-32001")
                     /\ imsg_stdin' = imsg_stdin
                     /\ pending' = pending
        /\ (ncalls' # ncalls /\ GuardSend' /\ ~GuardForwarded'
                /\ IdOf(Envelope(Val(client_line'))) # JNull)
              => /\ Len(client_out') = Len(client_out) + 1
                 /\ SubSeq(client_out', 1, Len(client_out)) = client_out
                 /\ Parses(client_out'[Len(client_out')])
                 /\ IdOf(Envelope(client_out'[Len(client_out')]))
                        = IdOf(Envelope(Val(client_line')))
                 /\ ErrorCode(Envelope(client_out'[Len(client_out')])) = JInt("-32001")
                 /\ imsg_stdin' = imsg_stdin
      ]_vars

\* A caller's send was denied while the other caller's call is pending.
C4_Witness ==
    \E t \in Callers :
        /\ Returned(t) /\ BridgeSend(t) /\ ~Val(auth[t]).allowed
        /\ ErrorCode(Val(ret[t])) = JInt("-32001")
        /\ DOMAIN pending # {}

\* C5: the step that writes an allowed send appends one line: for a recipient that is
\* an alias, the request with "to" replaced by the alias's real handle and all else
\* as the caller passed it; for a recipient that is a known real handle, the request
\* as the caller passed it.
C5_AllowedSendWritten ==
    [][ \A t \in Callers :
            (pc[t] = "locked" /\ pc'[t] = "waiting" /\ MethodOf(Val(arg[t])) = "send")
                => LET request == Val(arg[t])
                       params == ParamsOf(request)
                       alias == Lower(Strip(Recipient(params)))
                       resolved == Put(request, "params",
                                       JObj(Put(params, "to", JStr(CONTACTS[alias]))))
                   IN  IF alias \in ConfiguredAliases
                       THEN /\ \E i \in Configured :
                                  /\ Lower(Strip(source[i][1])) = alias
                                  /\ Strip(source[i][2]) = CONTACTS[alias]
                            /\ imsg_stdin' = Append(imsg_stdin, json_dumps(JObj(resolved)))
                       ELSE /\ Approved(Recipient(params))
                            /\ imsg_stdin' = Append(imsg_stdin, json_dumps(JObj(request)))
      ]_vars

\* Two sends were written: one to an alias, resolved, and one to a real handle, as is.
C5_Witness ==
    \E t, u \in Callers :
        /\ pc[t] = "waiting" /\ pc[u] = "waiting"
        /\ Lower(Strip(Recipient(BridgeParams(t)))) \in ConfiguredAliases
        /\ json_dumps(JObj(Val(req[t]))) \in Range(imsg_stdin)
        /\ Val(req[t]) # Val(arg[t])
        /\ Lower(Strip(Recipient(BridgeParams(u)))) \notin ConfiguredAliases
        /\ MethodOf(Val(arg[u])) = "send"
        /\ json_dumps(JObj(Val(arg[u]))) \in Range(imsg_stdin)

\* The sender of an event payload: the first non-blank sender field of the nested
\* message object, and of the top level only if the nested object has none.
EventSender(params) ==
    LET m == Get(params, "message", JObj(EmptyDict))
        nested == IF IsDict(m) THEN first_sender(m.v, 1) ELSE ""
    IN  IF nested # "" THEN nested ELSE first_sender(params, 1)

\* The payload is marked as self-originated, at the nested object or at the top level.
SelfOriginated(params) ==
    LET m == Get(params, "message", JObj(EmptyDict))
    IN  IsFromMe(params) \/ (IsDict(m) /\ IsFromMe(m.v))

\* The reader's current line is a message-arrival event; its payload; whether the
\* iteration surfaced it (buffered it for a drain, or forwarded it to the client).
ReaderEvent == ~IsNone(reader_line) /\ IsMessageEvent(Val(reader_line))
ReaderParams == ParamsOf(Envelope(Val(reader_line)))
Surfaced == IF mode = "alias" THEN ~IsNone(rewritten) ELSE Val(reader_line) \in Range(client_out)

\* C6: a message-arrival event whose sender is not a configured contact is never
\* buffered for a drain and never forwarded to the client.
C6_UnapprovedEventsNeverSurface ==
    (ReaderEvent /\ ~Approved(EventSender(ReaderParams))) => ~Surfaced

\* C7: a message-arrival event marked as self-originated is dropped whatever its
\* sender, by the bridge and by the guard.
C7_SelfOriginatedDropped ==
    (ReaderEvent /\ SelfOriginated(ReaderParams)) => ~Surfaced

\* C8: in alias mode the payload buffered for an allowed event holds the resolved
\* alias, which is no real identifier, in every sender field present at the top level
\* and in the nested message object; the envelope the reader parsed is left as parsed.
C8_BufferedPayloadHoldsAlias ==
    (mode = "alias" /\ ReaderEvent /\ ~IsNone(rewritten))
        => LET sender == EventSender(ReaderParams)
               out == Val(rewritten)
               m == Get(out, "message", JObj(EmptyDict))
               AliasIn(obj) ==
                   \A i \in 1..Len(SenderKeys) :
                       SenderKeys[i] \in DOMAIN obj
                           => obj[SenderKeys[i]] = JStr(HANDLE_TO_ALIAS[Normalize(sender)])
           IN  /\ Normalize(sender) \in DOMAIN HANDLE_TO_ALIAS
               /\ HANDLE_TO_ALIAS[Normalize(sender)] \in ConfiguredAliases
               /\ ~Approved(HANDLE_TO_ALIAS[Normalize(sender)])
               /\ AliasIn(out)
               /\ IsDict(m) => AliasIn(m.v)
               /\ Val(reader_msg) = Envelope(Val(reader_line))
               /\ json_dumps(JObj(Put(Val(reader_msg), "params", JObj(out))))
                      \in Range(notifications) \cup Range(client_out)

\* An allowed event with sender fields at the top level and in the nested object,
\* several of them, was buffered.
C8_Witness ==
    /\ mode = "alias" /\ ReaderEvent /\ ~IsNone(rewritten)
    /\ "sender" \in DOMAIN ReaderParams
    /\ {"handle", "address"} \subseteq DOMAIN Get(ReaderParams, "message", JObj(EmptyDict)).v
    /\ Val(rewritten) # ReaderParams

\* Every string a JSON value holds.
RECURSIVE StringsIn(_)
StringsIn(j) ==
    IF IsStr(j) THEN {j.v}
    ELSE IF IsDict(j) THEN UNION { StringsIn(j.v[f]) : f \in DOMAIN j.v }
    ELSE {}

\* What a remote client has been given: the entries drained, the responses returned.
Delivered ==
    { Val(json_loads(line)) : line \in { l \in Range(client_out) : Parses(l) } }
    \cup { JObj(Val(ret[t])) :
             t \in { u \in Callers : Returned(u) /\ DOMAIN Val(ret[u]) # {"k", "v"} } }

\* C9: in alias mode nothing delivered to a remote client, drained entry or returned
\* response, holds a configured contact's real identifier.
C9_NoRealIdentifierDelivered ==
    mode = "alias" => \A j \in Delivered : \A x \in StringsIn(j) : ~Approved(x)

\* C10: a call returns a response with the id of its own request, the ids compared
\* as the table of Pending Calls keys them, in every interleaving of two callers and
\* the reader.
C10_OwnResponseOnly ==
    \A t \in Callers :
        (Returned(t) /\ DOMAIN Val(ret[t]) # {"k", "v"} /\ Val(ret[t]) # EmptyDict)
            => str(IdOf(Val(ret[t]))) = str(IdOf(Val(arg[t])))

\* Both callers, with distinct ids and in flight together, have returned the
\* subprocess's results, which came in the order opposite to the requests'.
C10_Witness ==
    /\ \A t \in Callers : Returned(t) /\ "result" \in DOMAIN Val(ret[t])
    /\ str(IdOf(Val(arg["c1"]))) # str(IdOf(Val(arg["c2"])))
    /\ Len(imsg_stdin) = 3
    /\ str(IdOf(Envelope(imsg_stdin[2]))) = str(IdOf(Envelope(Val(reader_line))))
    /\ nlines = 2

\* The id of caller t's request and its key in the table of Pending Calls.
OwnId(t) == IdOf(Val(arg[t]))
OwnKey(t) == str(OwnId(t))

\* Caller t's call has timed out and returned.
TimedOut(t) == Returned(t) /\ Val(ret[t]) = TimeoutError(OwnId(t))

\* The step is one iteration of the bridge's reader on a line with a non-null id.
ReadsResponse ==
    /\ mode = "alias" /\ nlines' = nlines + 1
    /\ Parses(Val(reader_line')) /\ IsDict(Val(json_loads(Val(reader_line'))))
    /\ IdOf(Envelope(Val(reader_line'))) # JNull
ReadKey == str(IdOf(Envelope(Val(reader_line'))))

\* C11, as stated: a call that times out returns the timeout error with its own id and
\* its key leaves the table when it returns; a response with that id read after the
\* call has returned is handed to no caller and leaves the table without that key.
C11_LateResponseReachesNoCaller ==
    [][ /\ \A t \in Callers :
              /\ (pc[t] = "waiting" /\ pc'[t] = "finally" /\ ~entry[t].event)
                    => ret'[t] = Some(TimeoutError(OwnId(t)))
              /\ (pc[t] = "finally" /\ pc'[t] = "idle") => OwnKey(t) \notin DOMAIN pending'
        /\ (ReadsResponse /\ \E t \in Callers : TimedOut(t) /\ OwnKey(t) = ReadKey)
              => entry' = entry /\ ReadKey \notin DOMAIN pending'
      ]_vars

\* C11 where ids are not reused: the same, for a response read while no later call
\* has registered the same id.
C11_LateResponseDiscardedUnlessIdReused ==
    [][ /\ \A t \in Callers :
              /\ (pc[t] = "waiting" /\ pc'[t] = "finally" /\ ~entry[t].event)
                    => ret'[t] = Some(TimeoutError(OwnId(t)))
              /\ (pc[t] = "finally" /\ pc'[t] = "idle") => OwnKey(t) \notin DOMAIN pending'
        /\ (ReadsResponse /\ ReadKey \notin DOMAIN pending
                /\ \E t \in Callers : TimedOut(t) /\ OwnKey(t) = ReadKey)
              => entry' = entry /\ ReadKey \notin DOMAIN pending'
      ]_vars

\* Caller t called first and timed out; caller u, with another id, then got its
\* response; the last line read is the response to t, read after u's response and so
\* after t had registered, and it met no entry of t's: t's call was over.
C11_Witness ==
    \E t, u \in Callers :
        /\ TimedOut(t) /\ ~entry[t].event
        /\ Returned(u) /\ "result" \in DOMAIN Val(ret[u])
        /\ callno[t] < callno[u] /\ OwnKey(t) # OwnKey(u)
        /\ nlines = 2
        /\ str(IdOf(Envelope(Val(reader_line)))) = OwnKey(t)
        /\ pending = Pop(pending, OwnKey(t))

\* C12: the reader's iteration on a line with a non-null id that no Pending Call
\* has leaves the table of Pending Calls and the Notification Buffer as they were.
C12_UnmatchedResponseDiscarded ==
    [][ (ReadsResponse /\ ReadKey \notin DOMAIN pending)
            => pending' = pending /\ notifications' = notifications ]_vars

\* The last capacity entries of a sequence.
LastEntries(b) ==
    IF Len(b) > NOTIFICATION_BUFFER_MAX
    THEN SubSeq(b, Len(b) - NOTIFICATION_BUFFER_MAX + 1, Len(b))
    ELSE b

\* The reader's line passes through: it parses to an envelope with no id and a
\* method that is no message event.
PassesThrough(line) ==
    /\ Parses(line) /\ IsDict(Val(json_loads(line)))
    /\ IdOf(Envelope(line)) = JNull
    /\ MethodOf(Envelope(line)) \notin MessageMethods

\* C13: the Notification Buffer never holds more than capacity entries, and every
\* push leaves in it the last capacity entries of what it held followed by the pushed
\* entry, in that order; so capacity + k pushes leave the last capacity pushed.
C13_BufferKeepsLastCapacity ==
    /\ [](Len(notifications) <= NOTIFICATION_BUFFER_MAX)
    /\ [][ (mode = "alias" /\ nlines' = nlines + 1)
              => /\ \/ notifications' = notifications
                    \/ /\ notifications' # <<>>
                       /\ notifications' = LastEntries(
                             Append(notifications, notifications'[Len(notifications')]))
                 /\ PassesThrough(Val(reader_line'))
                       => notifications' = LastEntries(Append(notifications, Val(reader_line')))
         ]_vars

\* Two entries were pushed onto a full buffer with no drain: the buffer is full, its
\* oldest entry is the third filler and its newest two are the entries pushed.
C13_Witness ==
    /\ client_out = <<>> /\ nlines = 2
    /\ Len(notifications) = NOTIFICATION_BUFFER_MAX
    /\ notifications[1] = Filler(3)
    /\ notifications[NOTIFICATION_BUFFER_MAX - 2] = Filler(NOTIFICATION_BUFFER_MAX)
    /\ notifications[NOTIFICATION_BUFFER_MAX] = Val(reader_line)
    /\ PassesThrough(notifications[NOTIFICATION_BUFFER_MAX - 1])

\* C14: a drain hands over all the entries of the Notification Buffer, in order, and
\* leaves it empty; and while nothing is evicted, the entries handed over so far
\* followed by those still buffered are, at every step, what they were, with at most
\* one entry added at the end by the reader: an entry is handed over once, by one drain.
C14_DrainReturnsEachEntryOnce ==
    [][ mode = "alias"
          => /\ client_out' # client_out
                   => client_out' = client_out \o notifications /\ notifications' = <<>>
             /\ Len(notifications) < NOTIFICATION_BUFFER_MAX
                   => \/ client_out' \o notifications' = client_out \o notifications
                      \/ /\ nlines' = nlines + 1 /\ notifications' # <<>>
                         /\ client_out' \o notifications'
                               = Append(client_out \o notifications,
                                        notifications'[Len(notifications')])
      ]_vars

\* One entry was drained and another, pushed after the drain, is still buffered.
C14_Witness ==
    /\ mode = "alias" /\ nlines = 2
    /\ Len(client_out) = 1 /\ Len(notifications) = 1
    /\ client_out[1] # notifications[1]

\* The spellings of alias a, and the raw forms of handle h.
SpellingsOf(a) == { x \in AliasSpellings : Lower(Strip(x)) = a }
RawFormsOf(h) == { x \in PhoneSpellings \cup EmailSpellings : Normalize(x) = Normalize(h) }

\* C15: for every alias a that the loaded directory maps to handle h, resolve_alias
\* of every spelling of a is h and resolve_handle of every raw form of h is a; and the
\* gateway acts on it: a send to a spelling of a is resolved to h, an event from a raw
\* form of h is buffered under a.
C15_AliasHandleRoundTrip ==
    mode = "alias" =>
        \A a \in DOMAIN CONTACTS :
            /\ \A x \in SpellingsOf(a) : resolve_alias(x) = Some(CONTACTS[a])
            /\ \A x \in RawFormsOf(CONTACTS[a]) : resolve_handle(x) = Some(a)
            /\ \A t \in Callers :
                  (BridgeSend(t) /\ Recipient(BridgeParams(t)) \in SpellingsOf(a))
                      => /\ Val(auth[t]).allowed
                         /\ Recipient(Val(auth[t]).params) = CONTACTS[a]
            /\ (ReaderEvent /\ EventSender(ReaderParams) \in RawFormsOf(CONTACTS[a]))
                  => /\ ~IsNone(rewritten)
                     /\ EventSender(Val(rewritten)) = a

\* The deployment is configured with the phone number, in one of its spellings.
PhoneConfigured ==
    IF mode = "alias" THEN \E i \in Configured : source[i][2] \in PhoneSpellings
    ELSE ALLOWED_CONTACT \in PhoneSpellings

\* C16: every spelling of the phone number (scheme prefix, punctuation and spacing,
\* letter case, 10 or 11 digits) normalizes to "+15551234567", in the guard and in
\* the bridge, so that a deployment configured with one spelling allows a send to any
\* other and surfaces an event from any other.
C16_PhoneSpellingsNormalizeAlike ==
    /\ PhoneConfigured
          => \A c \in ConfiguredHandles \cap PhoneSpellings : normalize_handle(c) = Noah
    /\ (GuardSend /\ Recipient(GuardParams) \in PhoneSpellings)
          => /\ normalize_handle(Recipient(GuardParams)) = Noah
             /\ PhoneConfigured => GuardForwarded
    /\ \A t \in Callers :
          (BridgeSend(t) /\ Recipient(BridgeParams(t)) \in PhoneSpellings)
              => /\ normalize_handle(Recipient(BridgeParams(t))) = Noah
                 /\ PhoneConfigured => Val(auth[t]).allowed
    /\ (ReaderEvent /\ EventSender(ReaderParams) \in PhoneSpellings)
          => /\ normalize_handle(EventSender(ReaderParams)) = Noah
             /\ PhoneConfigured => Surfaced

\* The guard, configured with "(555) 123-4567", forwarded a send to "tel:+15551234567".
C16_Witness ==
    /\ GuardSend /\ GuardForwarded
    /\ ALLOWED_CONTACT = "(555) 123-4567"
    /\ Recipient(GuardParams) = "tel:+15551234567"

(* ------------------------------------------- a subprocess that is not running *)

\* Caller t's call has returned the local error response that carries its own id.
LocalError(t) ==
    /\ Returned(t)
    /\ "error" \in DOMAIN Val(ret[t])
    /\ IdOf(Val(ret[t])) = OwnId(t)

\* C17: a send call entered while the subprocess is not started, stopped or exited
\* returns in that step a local error response with the id of the request, leaving the
\* table of Pending Calls and the subprocess input as they were; and a call that finds
\* the subprocess gone when it comes to write (stop ran in between) returns a local
\* error response as well.
C17_NotRunningAnsweredLocally ==
    [][ \A t \in Callers :
          /\ (callno'[t] # callno[t] /\ proc # "running")
                => /\ LocalError(t)'
                   /\ pending' = pending
                   /\ imsg_stdin' = imsg_stdin
          /\ (pc[t] \in {"locked", "noid_locked"} /\ pc'[t] # pc[t] /\ proc # "running")
                => /\ "error" \in DOMAIN Val(ret'[t])
                   /\ IdOf(Val(ret'[t])) = OwnId(t)
                   /\ imsg_stdin' = imsg_stdin
      ]_vars

(* ------------------------------------------------------- malformed lines *)

\* The step is one iteration of the bridge's reader on a line that is no well-formed
\* envelope: unparseable text, a JSON value that is no object, or a message event
\* whose params is no object.
ReadsMalformed ==
    /\ mode = "alias" /\ nlines' = nlines + 1
    /\ LET line == Val(reader_line')
       IN  \/ ~IsEnvelope(line)
           \/ /\ MethodOf(Envelope(line)) \in MessageMethods
              /\ ~IsDict(Get(Envelope(line), "params", JObj(EmptyDict)))

\* C18: the reader discards a line that is no well-formed envelope, with the table of
\* Pending Calls and the Notification Buffer unchanged, and goes on reading.
C18_MalformedLineDiscarded ==
    [][ ReadsMalformed
          => /\ pending' = pending
             /\ entry' = entry
             /\ notifications' = notifications
             /\ reader_thread' = "alive"
      ]_vars

(* ------------------------------------------------------------ HTTP auth *)

\* The step is an HTTP exchange whose request carries no bearer token or one that is
\* not the secret, and is not a GET of /health.
UnauthorizedExchange ==
    /\ http' # http
    /\ Val(http').authorization \in UnauthorizedHeaders
    /\ ~(Val(http').verb = "GET" /\ Val(http').target \in HealthTargets)

\* C19: a request without the secret as its bearer token, to anything but GET /health,
\* is answered 401 and changes nothing: the Notification Buffer keeps its entries, no
\* Pending Call is registered, nothing is written to the subprocess; and every drain
\* and every send call happens in an exchange whose header carries the secret.
C19_UnauthorizedHasNoEffect ==
    [][ /\ UnauthorizedExchange
              => /\ Val(http').status = 401
                 /\ UNCHANGED <<notifications, client_out, pending, entry, pc, callno, imsg_stdin>>
        /\ (client_out' # client_out \/ callno' # callno)
              => /\ ~IsNone(http')
                 /\ Val(http').authorization \in AuthorizedHeaders
      ]_vars

\* A GET of /notifications with a wrong token was answered 401 while the subprocess
\* ran and the Notification Buffer held an entry.
C19_Witness ==
    /\ ~IsNone(http)
    /\ Val(http) = [verb |-> "GET", target |-> "/notifications/?since=1",
                    authorization |-> "Bearer secretx", status |-> 401]
    /\ proc = "running"
    /\ notifications # <<>>

(* ------------------------------------------------- one record per call *)

\* Caller t's call has registered its Pending Call and not yet returned from its wait.
InFlight(t) == pc[t] \in {"registered", "locked", "waiting"}

\* C20: a call in flight keeps its own record in the table of Pending Calls whatever
\* the other calls do (a registration under an id with the same string form does not
\* displace it, another call's cleanup does not remove it); a call's cleanup removes
\* its own record only; and a record that has been resolved is not resolved again.
C20_OneRecordPerCall ==
    [][ \A t \in Callers :
          /\ (InFlight(t) /\ InFlight(t)')
                => OwnKey(t) \in DOMAIN pending' /\ pending'[OwnKey(t)] = t
          /\ (pc[t] = "finally" /\ pc'[t] = "idle")
                => \A k \in DOMAIN pending \ DOMAIN pending' : pending[k] = t
          /\ (pc[t] \in {"waiting", "finally"} /\ entry[t].event) => entry'[t] = entry[t]
      ]_vars

(* ------------------------------------------------------- the write lock *)

\* The callers inside `with self.stdin_lock`.
Writers == { t \in Callers : pc[t] \in {"locked", "noid_locked"} }

\* At most one caller is inside a write, it is the holder of the lock, and nobody
\* else holds the lock: not a caller that waits for its reply.
LockDiscipline ==
    /\ Cardinality(Writers) <= 1
    /\ \A t \in Writers : stdin_lock = t
    /\ stdin_lock # "free" => stdin_lock \in Writers

\* C21: at most one caller at a time is inside a write to the subprocess input; a write
\* appends one whole line, the writer's request, or nothing; the lock is held by a
\* caller inside a write only, so that while a caller waits for its reply another
\* caller that has come to the write takes the lock as soon as no write is going on.
C21_WritesSerialized ==
    [][ /\ LockDiscipline /\ LockDiscipline'
        /\ \A t \in Callers :
              /\ (t \in Writers /\ t \notin Writers')
                    => /\ imsg_stdin' \in { imsg_stdin,
                                            Append(imsg_stdin, json_dumps(JObj(Val(req[t])))) }
                       /\ stdin_lock' = "free"
              /\ (t \notin Writers /\ t \in Writers') => Writers = {}
        /\ imsg_stdin' # imsg_stdin => Writers # {} \/ proc = "none"
        /\ \A t, u \in Callers :
              (pc'[t] = "waiting" /\ pc'[u] = "registered" /\ Writers' = {})
                  => stdin_lock' = "free"
      ]_vars

\* One caller waits for its reply while the other is inside its write.
C21_Witness ==
    \E t, u \in Callers :
        /\ pc[t] = "waiting" /\ pc[u] = "locked"
        /\ stdin_lock = u
        /\ json_dumps(JObj(Val(req[t]))) \in Range(imsg_stdin)

(* -------------------------------------------------- calls without an id *)

\* C22: while the subprocess runs, a send call whose request has no id registers no
\* Pending Call, never waits, and its write appends exactly the request to the
\* subprocess input and returns the empty acknowledgment, the table of Pending Calls
\* and the Notification Buffer being left as they were.
C22_NoIdForwardedAndAcknowledged ==
    [][ \A t \in Callers :
          /\ (callno'[t] # callno[t] /\ OwnId(t)' = JNull /\ proc = "running")
                => pc'[t] = "noid" /\ pending' = pending /\ notifications' = notifications
          /\ (pc[t] = "noid" /\ pc'[t] # pc[t])
                => pc'[t] = "noid_locked" /\ pending' = pending /\ notifications' = notifications
          /\ (pc[t] = "noid_locked" /\ pc'[t] # pc[t] /\ proc = "running")
                => /\ imsg_stdin' = Append(imsg_stdin, json_dumps(JObj(Val(arg[t]))))
                   /\ Returned(t)' /\ Val(ret'[t]) = EmptyDict
                   /\ pending' = pending /\ notifications' = notifications
          /\ pc'[t] \in {"registered", "locked", "waiting", "finally"} => OwnId(t)' # JNull
      ]_vars

\* A call without an id has returned the empty acknowledgment and its request is on
\* the subprocess input, with nothing pending.
C22_Witness ==
    \E t \in Callers :
        /\ Returned(t) /\ Val(ret[t]) = EmptyDict
        /\ OwnId(t) = JNull
        /\ imsg_stdin[Len(imsg_stdin)] = json_dumps(JObj(Val(arg[t])))
        /\ DOMAIN pending = {}

(* ------------------------------------------------------ unparseable lines *)

\* C23: a line that does not parse as JSON is discarded wherever it arrives: none is
\* on the subprocess input, none has been written to the client, none is buffered.
C23_UnparseableNeverForwarded ==
    \A line \in Range(imsg_stdin) \cup Range(client_out) \cup Range(notifications) :
        Parses(line)

(* ------------------------------------------------- handles that are no phone *)

\* The handle the gateway has judged in this state: the recipient of a send, the
\* sender of an event.
Judged ==
    (IF GuardSend THEN { Recipient(GuardParams) } ELSE {})
    \cup { Recipient(BridgeParams(t)) : t \in { u \in Callers : BridgeSend(u) } }
    \cup (IF ReaderEvent THEN { EventSender(ReaderParams) } ELSE {})

\* C24: an email address the gateway judges normalizes to its trimmed, lowercased
\* string, whatever its first character, so that it equals after normalization only
\* the configured identifiers that are the same address up to case and blanks: no other
\* email address and no phone number.
C24_EmailsNormalizeToThemselves ==
    \A x \in Judged \cap (EmailSpellings \cup DigitEmails) :
        /\ normalize_handle(x) = lower(strip(x))
        /\ \A y \in EmailSpellings \cup DigitEmails :
              normalize_handle(y) = normalize_handle(x) => lower(strip(y)) = lower(strip(x))
        /\ \A c \in ConfiguredHandles :
              normalize_handle(c) = normalize_handle(x) => lower(strip(c)) = lower(strip(x))

(* ------------------------------------------------ the sender of an event *)

\* C25: the decision on a message event that is not self-originated is the decision on
\* its one sender, the first non-blank sender field of the nested message object or,
\* if that has none, of the top level: the event surfaces if and only if that sender is
\* a configured contact, whatever the other sender fields of the payload name.
C25_DecidesOnOneSender ==
    (ReaderEvent /\ ~SelfOriginated(ReaderParams))
        => (Surfaced <=> Approved(EventSender(ReaderParams)))

(* ---------------------------------------------------------------- progress *)

\* Caller t is inside a send call that has registered its Pending Call.
InCall(t) == pc[t] \in {"registered", "locked", "waiting", "finally"}

\* Caller t's call has returned the response with its id or its timeout error.
Answered(t) ==
    /\ Returned(t)
    /\ \/ "result" \in DOMAIN Val(ret[t]) /\ str(IdOf(Val(ret[t]))) = OwnKey(t)
       \/ Val(ret[t]) = TimeoutError(OwnId(t))

\* C26, as stated: a send call with a non-null id that has registered its Pending Call
\* ends in no other way than by returning the response with its id or the timeout
\* error, whether the subprocess replies, stays silent or is gone.
C26_RegisteredCallAnswered ==
    [][ \A t \in Callers : (InCall(t) /\ ~InCall(t)') => Answered(t)' ]_vars

\* C26 while the subprocess lives: every send call with a non-null id that has
\* registered eventually returns, with the response that has its id or with the
\* timeout error, whether the subprocess replies or not and whatever the other caller
\* does; and while a caller waits the reader is never kept from reading the next line.
C26_EveryCallReturnsWhileRunning ==
    /\ \A t \in Callers : InCall(t) ~> Answered(t)
    /\ [](\A t \in Callers :
            (pc[t] = "waiting" /\ nlines < MaxLines)
                => ENABLED (\E line \in ResponseLines : ReadLine(line)))

\* One call has returned its timeout error and the other the subprocess's response,
\* the two having waited at the same time.
C26_Witness ==
    \E t, u \in Callers :
        /\ TimedOut(t)
        /\ Returned(u) /\ "result" \in DOMAIN Val(ret[u])
        /\ OwnKey(t) # OwnKey(u)
        /\ Len(imsg_stdin) = 3

(* ------------------------------------------- registered before the write *)

\* Caller t's record is in the table of Pending Calls under the key of its id.
Registered(t) == OwnKey(t) \in DOMAIN pending /\ pending[OwnKey(t)] = t

\* What C27 says of caller t in one step: its record is in the table when its line is
\* written and as long as it waits, and a response with its id read while it waits
\* unresolved is stored in its record and not buffered as a notification.
RegisteredWhileWritten(t) ==
    /\ (pc[t] = "locked" /\ pc'[t] = "waiting")
          => /\ Registered(t)
             /\ imsg_stdin' = Append(imsg_stdin, json_dumps(JObj(Val(req[t]))))
    /\ pc'[t] = "waiting" => Registered(t)'
    /\ (pc[t] = "waiting" /\ ~entry[t].event /\ ReadsResponse /\ ReadKey = OwnKey(t))
          => /\ entry'[t] = [event |-> TRUE, result |-> Some(Envelope(Val(reader_line')))]
             /\ notifications' = notifications

\* C27, as stated: for every request with a non-null id.
C27_RegisteredFromWriteToReturn ==
    [][ \A t \in Callers : RegisteredWhileWritten(t) ]_vars

\* A response was read while its caller waited, and is stored in the caller's record;
\* the other caller, with another id, waits on.
C27_Witness ==
    \E t, u \in Callers :
        /\ pc[t] = "waiting" /\ entry[t].event
        /\ entry[t].result = Some(Envelope(Val(reader_line)))
        /\ pc[u] = "waiting" /\ ~entry[u].event
        /\ OwnKey(t) # OwnKey(u)

(* ------------------------------------------- the two maps of the directory *)

\* C28: after load_contacts every entry of the reverse map names an alias of the
\* forward map and is keyed by the normalized form of that alias's handle; so a handle
\* is known, and a send to it allowed, only if some alias resolves to a handle with
\* the same normalized form.
C28_ReverseMapMatchesForward ==
    mode = "alias" =>
        /\ \A n \in DOMAIN HANDLE_TO_ALIAS :
              /\ HANDLE_TO_ALIAS[n] \in DOMAIN CONTACTS
              /\ normalize_handle(CONTACTS[HANDLE_TO_ALIAS[n]]) = n
        /\ \A x \in PhoneSpellings \cup EmailSpellings :
              is_known_handle(x)
                  => \E a \in DOMAIN CONTACTS : normalize_handle(CONTACTS[a]) = normalize_handle(x)
        /\ \A t \in Callers :
              (BridgeSend(t) /\ Val(auth[t]).allowed /\ IsNone(resolve_alias(Recipient(BridgeParams(t)))))
                  => \E a \in DOMAIN CONTACTS :
                        normalize_handle(CONTACTS[a]) = normalize_handle(Recipient(BridgeParams(t)))

====
